---------------------------- MODULE Spec2Model ----------------------------
(***************************************************************************)
(* python-weather-app: the batch fetch of weatherApp.py.                   *)
(*                                                                         *)
(* WeatherApp.on_get_weather splits the input line, starts one QThread     *)
(* with one WeatherWorker per location and counts them in pending_results. *)
(* Every WeatherWorker.run makes one requests.get and emits `finished`,    *)
(* which Qt posts to the GUI thread; the GUI thread's event loop delivers  *)
(* it to WeatherApp.on_weather_result.  QMessageBox.warning/critical run a *)
(* nested event loop: posted results are delivered while a box is showing, *)
(* and the handler that opened the box resumes when the box is closed and  *)
(* every handler entered above it has returned.                            *)
(*                                                                         *)
(* Text is a sequence of one-character strings.                            *)
(*                                                                         *)
(* Spec is the window with answers in flight.  SpecDispatch is the window  *)
(* before any answer arrives, over texts that mix two locations and        *)
(* blanks.  SpecSuggest is the input line edited over a locations.txt.     *)
(***************************************************************************)
EXTENDS Integers, Sequences, FiniteSets, TLC

\* Bounds of the model.
MaxSegs == 2        \* `;`-separated segments typed into the input line
MaxBatches == 2     \* on_get_weather runs that get past the empty-input check
MaxWorkers == 3     \* WeatherWorkers started in one execution of the program
MaxCities == 11     \* lines of locations.txt

-----------------------------------------------------------------------------
(* Characters and the string functions on_get_weather uses *)

AsciiUpper ==
    <<"A","B","C","D","E","F","G","H","I","J","K","L","M",
      "N","O","P","Q","R","S","T","U","V","W","X","Y","Z">>

AsciiLower ==
    <<"a","b","c","d","e","f","g","h","i","j","k","l","m",
      "n","o","p","q","r","s","t","u","v","w","x","y","z">>

\* The range À-ÿ of the pattern: U+00C0 .. U+00FF.
Latin1Range ==
    {"À","Á","Â","Ã","Ä","Å","Æ","Ç","È","É","Ê","Ë","Ì","Í","Î","Ï",
     "Ð","Ñ","Ò","Ó","Ô","Õ","Ö","×","Ø","Ù","Ú","Û","Ü","Ý","Þ","ß",
     "à","á","â","ã","ä","å","æ","ç","è","é","ê","ë","ì","í","î","ï",
     "ð","ñ","ò","ó","ô","õ","ö","÷","ø","ù","ú","û","ü","ý","þ","ÿ"}

\* What str.strip() removes and what \s matches, among the characters typed.
Whitespace == {" ", "\t", "\n", "\r"}

Range(s) == {s[i] : i \in 1..Len(s)}

IsUpper(c) == c \in Range(AsciiUpper)

\* [A-Za-zÀ-ÿ\s\-']
IsNameChar(c) ==
    c \in Range(AsciiUpper) \cup Range(AsciiLower) \cup Latin1Range
          \cup Whitespace \cup {"-", "'"}

\* str.lower() on one character (ASCII letters; the others are unchanged).
LowerChar(c) ==
    IF IsUpper(c)
    THEN AsciiLower[CHOOSE i \in 1..Len(AsciiUpper) : AsciiUpper[i] = c]
    ELSE c

Lower(s) == [i \in 1..Len(s) |-> LowerChar(s[i])]

\* str.strip()
RECURSIVE LStrip(_)
LStrip(s) ==
    IF s # <<>> /\ Head(s) \in Whitespace THEN LStrip(Tail(s)) ELSE s

RECURSIVE RStrip(_)
RStrip(s) ==
    IF s # <<>> /\ s[Len(s)] \in Whitespace
    THEN RStrip(SubSeq(s, 1, Len(s) - 1))
    ELSE s

Strip(s) == RStrip(LStrip(s))

\* str.split(sep): k separators give k+1 pieces, empty pieces included.
RECURSIVE Split(_, _)
Split(s, sep) ==
    IF \E i \in 1..Len(s) : s[i] = sep
    THEN LET i == CHOOSE j \in 1..Len(s) :
                      s[j] = sep /\ \A k \in 1..(j - 1) : s[k] # sep
         IN  <<SubSeq(s, 1, i - 1)>> \o Split(SubSeq(s, i + 1, Len(s)), sep)
    ELSE <<s>>

\* [c.strip() for c in text.split(';') if c.strip()]
\* The list of line 364 with `if c` for `if c.strip()`.
RECURSIVE StripNonEmpty_unstripped(_)
StripNonEmpty_unstripped(pieces) ==
    IF pieces = <<>> THEN <<>>
    ELSE IF Head(pieces) # <<>>
         THEN <<Strip(Head(pieces))>> \o StripNonEmpty_unstripped(Tail(pieces))
         ELSE StripNonEmpty_unstripped(Tail(pieces))

RECURSIVE StripNonEmpty(_)
StripNonEmpty(pieces) ==
    IF pieces = <<>> THEN <<>>
    ELSE IF Strip(Head(pieces)) # <<>>
         THEN <<Strip(Head(pieces))>> \o StripNonEmpty(Tail(pieces))
         ELSE StripNonEmpty(Tail(pieces))

ParseCities(text) == StripNonEmpty(Split(text, ";"))

\* re.compile(r"^[A-Za-zÀ-ÿ\s\-']+,\s*[A-Z]{2}$").match(city)
\* The name class has no comma, so the name is the text before the first
\* comma; what follows is whitespace and then exactly two capitals.  `$`
\* also matches before one final newline.
MatchesPattern(city) ==
    /\ \E i \in 1..Len(city) : city[i] = ","
    /\ LET i    == CHOOSE j \in 1..Len(city) :
                       city[j] = "," /\ \A k \in 1..(j - 1) : city[k] # ","
           name == SubSeq(city, 1, i - 1)
           rest == SubSeq(city, i + 1, Len(city))
           body == IF rest # <<>> /\ rest[Len(rest)] = "\n"
                   THEN {rest, SubSeq(rest, 1, Len(rest) - 1)}
                   ELSE {rest}
       IN  /\ name # <<>>
           /\ \A k \in 1..Len(name) : IsNameChar(name[k])
           /\ \E b \in body :
                 /\ Len(b) >= 2
                 /\ IsUpper(b[Len(b)]) /\ IsUpper(b[Len(b) - 1])
                 /\ \A k \in 1..(Len(b) - 2) : b[k] \in Whitespace

\* `fragment in c.lower()` for c.lower().startswith(fragment).
StartsWith_anywhere(s, prefix) ==
    \E k \in 0..(Len(s) - Len(prefix)) :
        SubSeq(s, k + 1, k + Len(prefix)) = prefix

\* str.startswith
StartsWith(s, prefix) ==
    Len(prefix) <= Len(s) /\ SubSeq(s, 1, Len(prefix)) = prefix

\* The slice limit of line 330.
MaxSuggestions == 10

\* [c for c in all if c.lower().startswith(fragment)]
RECURSIVE Matching(_, _)
Matching(all, fragment) ==
    IF all = <<>> THEN <<>>
    ELSE IF StartsWith(Lower(Head(all)), fragment)
         THEN <<Head(all)>> \o Matching(Tail(all), fragment)
         ELSE Matching(Tail(all), fragment)

\* s[:n]
Take(s, n) == SubSeq(s, 1, IF Len(s) < n THEN Len(s) ELSE n)

\* text.split(";")[-1].strip().lower()
Fragment(text) ==
    LET pieces == Split(text, ";") IN Lower(Strip(pieces[Len(pieces)]))

\* The number of leading cities the dispatch loop starts a worker for: all
\* of them, or those before the first one that fails the pattern.
RECURSIVE ValidPrefix(_)
ValidPrefix(cities) ==
    IF cities = <<>> \/ ~MatchesPattern(Head(cities)) THEN 0
    ELSE 1 + ValidPrefix(Tail(cities))

-----------------------------------------------------------------------------
(* What the user types and what the weather provider answers *)

\* " Ab,GB" and "C,FR " are locations once stripped, "ab,gb" is not, " " is
\* dropped.
SegCity  == <<" ", "A", "b", ",", "G", "B">>
SegOther == <<"C", ",", "F", "R", " ">>
SegBad   == <<"a", "b", ",", "g", "b">>
SegBlank == <<" ">>

Segs == {SegCity, SegBad, SegBlank}

\* "; ".join without the blank: the segments with `;` between them.
RECURSIVE Join(_)
Join(ss) ==
    IF ss = <<>> THEN <<>>
    ELSE IF Len(ss) = 1 THEN Head(ss)
    ELSE Head(ss) \o <<";">> \o Join(Tail(ss))

\* The sequences of at most `most` segments of `kinds`.
SegLists(kinds, most) == UNION {[1..n -> kinds] : n \in 0..most}

\* The texts a user submits while answers are in flight: locations and
\* malformed segments, or blanks only.
Inputs ==
    {Join(ss) : ss \in {tt \in SegLists(Segs, MaxSegs) :
                           \/ \A k \in 1..Len(tt) : tt[k] = SegBlank
                           \/ \A k \in 1..Len(tt) : tt[k] # SegBlank}}

\* The texts a user submits to a window that has no answer yet: two
\* different locations and blanks in any mix, one segment more than in
\* Inputs, and two texts with a malformed segment.
OrderInputs ==
    {Join(ss) : ss \in SegLists({SegCity, SegOther, SegBlank}, MaxSegs + 1)}
    \cup {SegBad, Join(<<SegOther, SegBad, SegCity>>)}

\* The texts a user types over a city list of "Ab" and "B" lines.
SuggestTexts ==
    { <<>>, <<"a">>, <<" ", "B", " ">>, <<"a", ";", "b">>, <<"a", ";", " ">>,
      <<"x">>, <<"a", "b", "c">>, <<"b", ";", "A", "b">> }

Texts == Inputs \cup OrderInputs \cup SuggestTexts

\* locations.txt: at most MaxCities lines, each "Ab" or "B".
CityLists == UNION {[1..n -> {<<"A", "b">>, <<"B">>}] : n \in 0..MaxCities}

\* Line 364 for every text.
InputCities == [text \in Texts |-> ParseCities(text)]

\* The number of workers the dispatch loop starts, for every text.
InputValid == [text \in Texts |-> ValidPrefix(InputCities[text])]

\* Line 322 for every text.
InputFragment == [text \in Texts |-> Fragment(text)]

Units == {"metric", "imperial"}

\* The ways one requests.get(url, params, timeout=5) can end: a response
\* with a status code and a body, or a requests exception (timeout, DNS,
\* connection reset).
HttpResults ==
    {[kind |-> "response", status |-> 200, body |-> b] :
        b \in {"object", "falsy", "garbage"}}
    \cup {[kind |-> "response", status |-> s, body |-> "text"] :
            s \in {204, 404, 500}}
    \cup {[kind |-> "exception", status |-> 0, body |-> "none"]}

NoResult == [kind |-> "pending", status |-> 0, body |-> "none"]

\* Python values passed as `data`: None, a non-empty dict, an empty value.
None == [kind |-> "None", q |-> <<>>, units |-> "none"]

\* response.json() of a 200 response to q=city, units=unit.
Json(r, city, unit) ==
    IF r.body = "object" THEN [kind |-> "dict", q |-> city, units |-> unit]
    ELSE [kind |-> "falsy", q |-> <<>>, units |-> "none"]

\* Python truthiness of `data` (`elif not data`).
Truthy(data) == data.kind = "dict"

\* requests.Response.raise_for_status raises for 4xx and 5xx only.
RaisesForStatus(status) == 400 <= status /\ status < 600

-----------------------------------------------------------------------------
VARIABLES
    city_input,       \* city_input.text()
    cities,           \* WeatherApp.cities, the lines of locations.txt
    suggestion_list,  \* suggestion_list: its items, isVisible(), currentRow()
    unit,             \* WeatherApp.unit
    unit_symbol,      \* WeatherApp.unit_symbol
    cache,            \* WeatherApp.cache
    get_weather_btn,  \* get_weather_btn.isEnabled()
    unit_toggle_btn,  \* unit_toggle_btn.isEnabled()
    grid_layout,      \* the cards in grid_layout, in the order they were added
    threads,          \* WeatherApp.threads
    workers,          \* WeatherApp.workers
    pending_results,  \* WeatherApp.pending_results
    any_success,      \* WeatherApp.any_success
    pool,             \* the WeatherWorkers started so far, each with its QThread
    events,           \* `finished` emissions posted to the GUI thread
    stack,            \* handlers of the GUI thread waiting in a message box
    batch,            \* history: number of batches started
    fetched,          \* history: the keys a 200 payload was received for
    tally,            \* history: of the latest batch, the cities entered and
                      \*          the workers started, handled, and handled
                      \*          with a payload
    terminal_log      \* history: the runs of the batch-completion branch
                      \*          since the latest batch started

vars ==
    <<city_input, cities, suggestion_list, unit, unit_symbol, cache, get_weather_btn, unit_toggle_btn, grid_layout,
      threads, workers, pending_results, any_success, pool, events, stack,
      batch, fetched, tally, terminal_log>>

\* Lines 187-199 and setup_ui, with `locations` read from locations.txt:
\* metric, empty cache, empty input line, hidden suggestion list, both
\* buttons enabled, no card.  threads, workers, pending_results and
\* any_success are first assigned by on_get_weather, before anything reads
\* them.
Constructed(locations) ==
    /\ city_input = <<>>
    /\ cities = locations
    /\ suggestion_list = [items |-> <<>>, visible |-> FALSE, row |-> -1]
    /\ unit = "metric"
    /\ unit_symbol = "C"
    /\ cache = <<>>
    /\ get_weather_btn = TRUE
    /\ unit_toggle_btn = TRUE
    /\ grid_layout = <<>>
    /\ threads = <<>>
    /\ workers = <<>>
    /\ pending_results = 0
    /\ any_success = FALSE
    /\ pool = <<>>
    /\ events = <<>>
    /\ stack = <<>>
    /\ batch = 0
    /\ fetched = {}
    /\ tally = [entered |-> 0, started |-> 0, handled |-> 0, succeeded |-> 0]
    /\ terminal_log = <<>>

\* The program started without a locations.txt (lines 194-195).
Init == Constructed(<<>>)

Frame(handler, at) == [handler |-> handler, at |-> at]

Pop(s) == SubSeq(s, 1, Len(s) - 1)

\* The key the specification gives a cache entry: (location lowercased, unit).
CacheKey(city, u) == <<Lower(city), u>>

\* WeatherWorker(city, self.unit, self.api_key, index), moved to its own
\* QThread and started.
\* History fields: `stale` once a later on_get_weather has reset the batch
\* fields, `warm` when a 200 payload for the worker's key had been received
\* before its own request went out.
WeatherWorker(city, u, index) ==
    [city |-> city, unit |-> u, index |-> index,
     state |-> "running", result |-> NoResult, requests |-> 0,
     emitted |-> 0, stale |-> FALSE, warm |-> FALSE]

\* A worker after `finished` was delivered: worker.deleteLater, thread.quit
\* and thread.deleteLater (lines 401-403).
Deleted ==
    [city |-> <<>>, unit |-> "none", index |-> 0,
     state |-> "deleted", result |-> NoResult, requests |-> 0,
     emitted |-> 0, stale |-> TRUE, warm |-> FALSE]

Outdated(p) == [v \in 1..Len(p) |-> [p[v] EXCEPT !.stale = TRUE]]

\* WeatherCard(data, self.unit_symbol, self.unit) at (index // 2, index % 2).
WeatherCard(data, sym, u, index) ==
    [data |-> data, unit_symbol |-> sym, unit |-> u,
     row |-> index \div 2, col |-> index % 2]

-----------------------------------------------------------------------------
(* WeatherApp.show_suggestions *)

\* Lines 321-338 for the edited text: with no fragment or no city the list
\* is hidden as it is; otherwise it is cleared and, when something matches,
\* filled with the first matches, its first row selected, and shown.
show_suggestions(text) ==
    LET fragment == InputFragment[text]
        matches  == Take(Matching(cities, fragment), MaxSuggestions)
    IN  suggestion_list' =
            IF fragment = <<>> \/ cities = <<>>
            THEN [suggestion_list EXCEPT !.visible = FALSE]
            ELSE IF matches # <<>>
            THEN [items |-> matches, visible |-> TRUE, row |-> 0]
            ELSE [items |-> <<>>, visible |-> FALSE, row |-> -1]

\* The user edits the input line to `text`: textEdited calls
\* show_suggestions.
Typed(text) ==
    /\ city_input' = text
    /\ show_suggestions(text)
    /\ UNCHANGED cities

-----------------------------------------------------------------------------
(* WeatherApp.on_get_weather and toggle_unit *)

\* The dispatch loop with enumerate(cities, 1).
Dispatched_one_based(cs, u) ==
    [k \in 1..ValidPrefix(cs) |-> WeatherWorker(cs[k], u, k)]

\* The workers the dispatch loop (lines 384-409) starts for `cities` under
\* unit u: one per city of the prefix that passes the pattern, index from 0.
Dispatched(cs, u) ==
    [k \in 1..ValidPrefix(cs) |-> WeatherWorker(cs[k], u, k - 1)]

\* on_get_weather with `text` in the input line and self.unit = u.  With no
\* city it warns and returns.  Otherwise it disables the buttons, removes the
\* cards, resets the batch fields and starts a worker for each city until one
\* fails the pattern; there it warns, and re-enables the buttons when the
\* box is closed.
on_get_weather(text, u) ==
    LET cs  == InputCities[text]
        n   == InputValid[text]
        ids    == [k \in 1..n |-> Len(pool) + k]
    IN  IF cs = <<>>
        THEN /\ stack' = Append(stack, Frame("on_get_weather", "warn_empty"))
             /\ UNCHANGED <<cache, get_weather_btn, unit_toggle_btn,
                            grid_layout, threads, workers, pending_results,
                            any_success, pool, events, batch, fetched,
                            tally, terminal_log>>
        ELSE /\ batch < MaxBatches
             /\ Len(pool) + n <= MaxWorkers
             /\ get_weather_btn' = FALSE
             /\ unit_toggle_btn' = FALSE
             /\ grid_layout' = <<>>
             /\ threads' = ids
             /\ workers' = ids
             /\ pending_results' = n
             /\ any_success' = FALSE
             /\ pool' = Outdated(pool) \o Dispatched(cs, u)
             /\ stack' = IF n < Len(cs)
                         THEN Append(stack,
                                     Frame("on_get_weather", "warn_invalid"))
                         ELSE stack
             /\ batch' = batch + 1
             /\ tally' = [entered |-> Len(cs), started |-> n,
                          handled |-> 0, succeeded |-> 0]
             /\ terminal_log' = <<>>
             /\ UNCHANGED <<cache, events, fetched>>

\* The user leaves one of `texts` in the input line and clicks "Get
\* Weather": the window takes keys and clicks when no modal box is open, the
\* button when it is enabled.
GetWeatherClicked(texts) ==
    /\ stack = <<>>
    /\ get_weather_btn
    /\ \E text \in texts : Typed(text) /\ on_get_weather(text, unit)
    /\ UNCHANGED <<unit, unit_symbol>>

ClickGetWeather == GetWeatherClicked(Inputs)

\* The user leaves one of `texts` in the input line and clicks the unit
\* button: toggle_unit, which ends in on_get_weather.
UnitToggled(texts) ==
    /\ stack = <<>>
    /\ unit_toggle_btn
    /\ unit' = IF unit = "metric" THEN "imperial" ELSE "metric"
    /\ unit_symbol' = IF unit = "metric" THEN "F" ELSE "C"
    /\ \E text \in texts : Typed(text) /\ on_get_weather(text, unit')

toggle_unit == UnitToggled(Inputs)

-----------------------------------------------------------------------------
(* WeatherWorker.run, in the worker's own thread *)

Message(city, data, error, index, id) ==
    [city |-> city, data |-> data, error |-> error, index |-> index,
     worker |-> id]

\* The `finished` emissions of run() for the result r of its requests.get.
Emissions(w, r, id) ==
    IF r.kind = "exception"
    THEN <<Message(w.city, None, "RequestException", w.index, id)>>
    ELSE IF r.status = 200
    THEN IF r.body = "garbage"
         THEN <<Message(w.city, None, "JSONDecodeError", w.index, id)>>
         ELSE <<Message(w.city, Json(r, w.city, w.unit), "None", w.index, id)>>
    ELSE IF r.status = 404
    THEN <<Message(w.city, None, "None", w.index, id)>>
    ELSE IF RaisesForStatus(r.status)
    THEN <<Message(w.city, None, "HTTPError", w.index, id)>>
    ELSE <<>>

\* The cache after run(): run() has no access to WeatherApp.cache.
CacheAfterRun(c, w, r) == c

run(id) ==
    /\ pool[id].state = "running"
    /\ \E r \in HttpResults :
          /\ pool' = [pool EXCEPT
                        ![id].state = "finished",
                        ![id].result = r,
                        ![id].requests = @ + 1,
                        ![id].warm =
                            CacheKey(pool[id].city, pool[id].unit) \in fetched,
                        ![id].emitted = Len(Emissions(pool[id], r, id))]
          /\ events' = events \o Emissions(pool[id], r, id)
          /\ cache' = CacheAfterRun(cache, pool[id], r)
          /\ fetched' = IF r.status = 200 /\ r.body = "object"
                        THEN fetched \cup
                               {CacheKey(pool[id].city, pool[id].unit)}
                        ELSE fetched
    /\ UNCHANGED <<city_input, cities, suggestion_list, unit, unit_symbol,
                   get_weather_btn, unit_toggle_btn,
                   grid_layout, threads, workers, pending_results,
                   any_success, stack, batch, tally, terminal_log>>

-----------------------------------------------------------------------------
(* WeatherApp.on_weather_result, in the GUI thread *)

\* History: the workers of the latest batch whose result has not been
\* handled.
Outstanding(p) == {v \in 1..Len(p) : ~p[v].stale}

\* History: a run of the completion branch: the any_success it reports,
\* whether every worker of the latest batch has been handled, and whether
\* one of them has come back with a payload.
TerminalEvent(p, t, any) ==
    [any      |-> any,
     complete |-> Outstanding(p) = {},
     success  |-> t.succeeded > 0]

\* History: the tally after the result m of worker w has been handled.
Count(t, w, m) ==
    IF w.stale THEN t
    ELSE [t EXCEPT !.handled = @ + 1,
                   !.succeeded = IF m.error = "None" /\ Truthy(m.data)
                                 THEN @ + 1 ELSE @]

\* CardsAfterResult with a failed item taking the cards shown so far with it.
CardsAfterResult_clearing(cards, data, error, index, sym, u) ==
    IF error # "None" THEN <<>>
    ELSE IF ~Truthy(data) THEN <<>>
    ELSE Append(cards, WeatherCard(data, sym, u, index))

\* Lines 414-424: the cards after one result.
CardsAfterResult(cards, data, error, index, sym, u) ==
    IF error # "None" THEN cards
    ELSE IF ~Truthy(data) THEN cards
    ELSE Append(cards, WeatherCard(data, sym, u, index))

\* Lines 426-435 with pending_results = pend and any_success = any, the
\* handlers in `below` waiting under this one.
Completion(pend, any, p, t, below) ==
    IF pend = 0
    THEN /\ get_weather_btn' = TRUE
         /\ unit_toggle_btn' = TRUE
         /\ terminal_log' = Append(terminal_log, TerminalEvent(p, t, any))
         /\ IF ~any
            THEN /\ stack' = Append(below,
                                    Frame("on_weather_result", "warn_none"))
                 /\ UNCHANGED <<threads, workers>>
            ELSE /\ stack' = below
                 /\ threads' = <<>>
                 /\ workers' = <<>>
    ELSE /\ stack' = below
         /\ UNCHANGED <<get_weather_btn, unit_toggle_btn, terminal_log,
                        threads, workers>>

\* The event loop (the top one or the one of an open box) delivers the
\* oldest posted emission.  The handler runs to its return or to its first
\* message box.
on_weather_result ==
    /\ events # <<>>
    /\ LET m == Head(events)
           p == [pool EXCEPT ![m.worker] = Deleted]
           t == Count(tally, pool[m.worker], m)
       IN  /\ events' = Tail(events)
           /\ pool' = p
           /\ tally' = t
           /\ pending_results' = pending_results - 1
           /\ grid_layout' = CardsAfterResult(grid_layout, m.data, m.error,
                                              m.index, unit_symbol, unit)
           /\ IF m.error # "None"
              THEN /\ stack' = Append(stack,
                                 Frame("on_weather_result", "critical_error"))
                   /\ UNCHANGED <<any_success, get_weather_btn,
                                  unit_toggle_btn, terminal_log, threads,
                                  workers>>
              ELSE IF ~Truthy(m.data)
              THEN /\ stack' = Append(stack,
                                 Frame("on_weather_result", "warn_not_found"))
                   /\ UNCHANGED <<any_success, get_weather_btn,
                                  unit_toggle_btn, terminal_log, threads,
                                  workers>>
              ELSE /\ any_success' = TRUE
                   /\ Completion(pending_results', TRUE, p, t, stack)
    /\ UNCHANGED <<city_input, cities, suggestion_list, unit, unit_symbol,
                   cache, batch, fetched>>

\* The user closes the box of the handler entered last; the handler goes on
\* from the line after the box.
CloseBox ==
    /\ stack # <<>>
    /\ LET top == stack[Len(stack)]
       IN  CASE top.at = "warn_empty" ->
                  /\ stack' = Pop(stack)
                  /\ UNCHANGED <<get_weather_btn, unit_toggle_btn, threads,
                                 workers, terminal_log>>
             [] top.at = "warn_invalid" ->
                  /\ get_weather_btn' = TRUE
                  /\ unit_toggle_btn' = TRUE
                  /\ stack' = Pop(stack)
                  /\ UNCHANGED <<threads, workers, terminal_log>>
             [] top.at \in {"critical_error", "warn_not_found"} ->
                  Completion(pending_results, any_success, pool, tally,
                             Pop(stack))
             [] top.at = "warn_none" ->
                  /\ threads' = <<>>
                  /\ workers' = <<>>
                  /\ stack' = Pop(stack)
                  /\ UNCHANGED <<get_weather_btn, unit_toggle_btn,
                                 terminal_log>>
    /\ UNCHANGED <<city_input, cities, suggestion_list, unit, unit_symbol,
                   cache, grid_layout, pending_results,
                   any_success, pool, events, batch, fetched, tally>>

-----------------------------------------------------------------------------
Next ==
    \/ ClickGetWeather
    \/ toggle_unit
    \/ \E id \in 1..Len(pool) : run(id)
    \/ on_weather_result
    \/ CloseBox

Spec == Init /\ [][Next]_vars

\* The window before any answer arrives: the user submits texts of two
\* different locations, malformed segments and blanks, and closes the boxes.
ClickOrdered == GetWeatherClicked(OrderInputs)

ToggleOrdered == UnitToggled(OrderInputs)

NextDispatch ==
    \/ ClickOrdered
    \/ ToggleOrdered
    \/ CloseBox

SpecDispatch == Init /\ [][NextDispatch]_vars

\* The window started over a locations.txt of at most MaxCities lines, and
\* a user who only edits the input line.
InitSuggest == \E locations \in CityLists : Constructed(locations)

textEdited ==
    /\ stack = <<>>
    /\ \E text \in SuggestTexts : Typed(text)
    /\ UNCHANGED <<unit, unit_symbol, cache, get_weather_btn, unit_toggle_btn,
                   grid_layout, threads, workers, pending_results,
                   any_success, pool, events, stack, batch, fetched, tally,
                   terminal_log>>

NextSuggest == textEdited

SpecSuggest == InitSuggest /\ [][NextSuggest]_vars

-----------------------------------------------------------------------------
(* Properties *)

Live(v) == pool[v].state \in {"running", "finished"}

\* No request is out, every posted result has been handled and every box
\* has been closed.
Quiet ==
    /\ \A v \in 1..Len(pool) : pool[v].state # "running"
    /\ events = <<>>
    /\ stack = <<>>

\* The emission of the finished worker v that waits in the event queue.
Posted(v) == {events[i] : i \in {j \in 1..Len(events) : events[j].worker = v}}

\* C1: the batch-completion branch of on_weather_result runs at most once
\* per batch, and only when the result of every worker of the batch has
\* been handled.
ClaimC1 ==
    /\ Len(terminal_log) <= 1
    /\ \A i \in 1..Len(terminal_log) : terminal_log[i].complete

\* C2: while a started worker has not had its result handled, both buttons
\* are disabled.
ClaimC2 ==
    (\E v \in 1..Len(pool) : Live(v))
        => (~get_weather_btn /\ ~unit_toggle_btn)

\* C3: when a city of the input fails the pattern, no worker of that batch
\* has been started, wherever the failing city stands.
ClaimC3 ==
    tally.started < tally.entered
        => (Outstanding(pool) = {} /\ tally.handled = 0)

\* C4: once a batch of N valid cities has come to rest, N results have been
\* handled and the completion branch has run once, whatever the requests
\* ended with.
ClaimC4 ==
    (Quiet /\ tally.entered >= 1 /\ tally.started = tally.entered)
        => (tally.handled = tally.entered /\ Len(terminal_log) = 1)

\* C5: a finished worker has made one request and emitted one outcome:
\* data and no error for 200, neither for 404, an error for every other
\* status and for a failed request.
ClaimC5 ==
    \A v \in 1..Len(pool) :
        pool[v].state = "finished" =>
            /\ pool[v].requests = 1
            /\ pool[v].emitted = 1
            /\ \A m \in Posted(v) :
                  IF pool[v].result.kind = "response"
                        /\ pool[v].result.status = 200
                  THEN m.data # None /\ m.error = "None"
                  ELSE IF pool[v].result.kind = "response"
                            /\ pool[v].result.status = 404
                  THEN m.data = None /\ m.error = "None"
                  ELSE m.error # "None"

\* C6: the any_success a run of the completion branch reports is true
\* exactly when a worker of that batch came back with a payload.
ClaimC6 ==
    \A i \in 1..Len(terminal_log) :
        terminal_log[i].any = terminal_log[i].success

\* C7: a worker whose key had a payload fetched before makes no request.
ClaimC7 ==
    \A v \in 1..Len(pool) : pool[v].warm => pool[v].requests = 0

\* C8: after a worker has ended with a 200 payload the cache holds that
\* payload under (location lowercased, unit).
ClaimC8 ==
    \A v \in 1..Len(pool) :
        (pool[v].state = "finished" /\ pool[v].result.status = 200
            /\ pool[v].result.body = "object")
        => /\ CacheKey(pool[v].city, pool[v].unit) \in DOMAIN cache
           /\ cache[CacheKey(pool[v].city, pool[v].unit)]
                 = Json(pool[v].result, pool[v].city, pool[v].unit)

\* C9: handling the result of one worker leaves every other worker and
\* every other posted result as they were; a failed item leaves the cards
\* as they were, and a payload gets its card at (index div 2, index mod 2)
\* also while boxes of failed items are open.
ClaimC9 ==
    [][\A w \in 1..Len(pool) :
          (pool[w].state # "deleted" /\ pool'[w].state = "deleted") =>
              /\ events # <<>>
              /\ Head(events).worker = w
              /\ events' = Tail(events)
              /\ \A v \in 1..Len(pool) : v # w => pool'[v] = pool[v]
              /\ IF Head(events).error # "None" \/ ~Truthy(Head(events).data)
                 THEN grid_layout' = grid_layout
                 ELSE grid_layout' =
                        Append(grid_layout,
                               [data |-> Head(events).data,
                                unit_symbol |-> unit_symbol,
                                unit |-> unit,
                                row |-> pool[w].index \div 2,
                                col |-> pool[w].index % 2])]_vars

\* A failed item and a payload of the same batch have both been handled and
\* the box of the failed item is still open above the card.
WitnessC9 ==
    /\ tally.succeeded >= 1
    /\ tally.handled > tally.succeeded
    /\ grid_layout # <<>>
    /\ \E i \in 1..Len(stack) :
          stack[i].at \in {"critical_error", "warn_not_found"}

\* C10: a batch that started a worker and has come to rest has both buttons
\* enabled again.
ClaimC10 ==
    (Quiet /\ tally.started >= 1) => (get_weather_btn /\ unit_toggle_btn)

\* A step that runs on_get_weather: the window is idle, and the step starts
\* a batch or opens a box of on_get_weather.
OnGetWeatherStep ==
    /\ stack = <<>>
    /\ \/ batch' # batch
       \/ stack' # <<>> /\ stack'[1].handler = "on_get_weather"

\* The text holds nothing but `;` and whitespace.
NoSegment(text) ==
    \A k \in 1..Len(text) : text[k] \in Whitespace \cup {";"}

\* C11: on_get_weather on a text with no non-empty segment starts no
\* worker, issues no request, leaves both buttons, pending_results, the
\* cards and the batch as they were.
ClaimC11 ==
    [][(OnGetWeatherStep /\ NoSegment(city_input')) =>
          /\ pool' = pool
          /\ events' = events
          /\ fetched' = fetched
          /\ get_weather_btn' = get_weather_btn
          /\ unit_toggle_btn' = unit_toggle_btn
          /\ pending_results' = pending_results
          /\ threads' = threads
          /\ workers' = workers
          /\ any_success' = any_success
          /\ grid_layout' = grid_layout
          /\ batch' = batch]_vars

\* A text of blanks and `;` has been rejected while a worker is out.
WitnessC11 ==
    /\ stack # <<>>
    /\ stack[1].at = "warn_empty"
    /\ city_input # <<>>
    /\ \E k \in 1..Len(city_input) : city_input[k] = ";"
    /\ NoSegment(city_input)
    /\ \E v \in 1..Len(pool) : Live(v)

\* The positions that bound the segments of a text: before it, after it and
\* at every `;`.
Cuts(text) ==
    {0, Len(text) + 1} \cup {k \in 1..Len(text) : text[k] = ";"}

\* s from its first to its last character that is not whitespace.
Trimmed(s) ==
    LET ink == {k \in 1..Len(s) : s[k] \notin Whitespace}
    IN  IF ink = {} THEN <<>>
        ELSE SubSeq(s, CHOOSE a \in ink : \A b \in ink : a <= b,
                       CHOOSE a \in ink : \A b \in ink : a >= b)

\* The trimmed segment between the cut a and the next cut.
SegmentAt(text, a) ==
    LET next == CHOOSE c \in Cuts(text) :
                    c > a /\ \A d \in Cuts(text) : d > a => c <= d
    IN  Trimmed(SubSeq(text, a + 1, next - 1))

\* The non-empty trimmed segments of a text, in the order of the text.
Queries(text) ==
    LET starts == {a \in Cuts(text) \ {Len(text) + 1} :
                      SegmentAt(text, a) # <<>>}
    IN  [k \in 1..Cardinality(starts) |->
            SegmentAt(text, CHOOSE a \in starts :
                                Cardinality({b \in starts : b < a}) = k - 1)]

\* Queries for every text a user submits.
InputQueries == [text \in Texts |-> Queries(text)]

\* The texts with a segment, all of whose segments pass the pattern.
AllValid ==
    {text \in Texts :
        /\ Queries(text) # <<>>
        /\ \A k \in 1..Len(Queries(text)) : MatchesPattern(Queries(text)[k])}

\* C12: on_get_weather on a text whose segments all pass the pattern starts
\* one worker per non-empty trimmed segment, in the order of the text, the
\* k-th of them (from 0) for that segment with index k and the unit of the
\* submission; equal segments get a worker each.
ClaimC12 ==
    [][LET qs == InputQueries[city_input']
       IN  (OnGetWeatherStep /\ city_input' \in AllValid) =>
               /\ Len(pool') = Len(pool) + Len(qs)
               /\ pending_results' = Len(qs)
               /\ \A k \in 1..Len(qs) :
                     /\ pool'[Len(pool) + k].city = qs[k]
                     /\ pool'[Len(pool) + k].index = k - 1
                     /\ pool'[Len(pool) + k].unit = unit'
                     /\ pool'[Len(pool) + k].state = "running"]_vars

\* Three workers are out for "Ab,GB", "C,FR" and "Ab,GB" again, typed
\* with blanks around them, with the indices 0, 1 and 2.
WitnessC12 ==
    /\ InputQueries[city_input] =
          <<Strip(SegCity), Strip(SegOther), Strip(SegCity)>>
    /\ \E k \in 1..Len(city_input) : city_input[k] \in Whitespace
    /\ Len(pool) = 3
    /\ \A v \in 1..3 :
          /\ ~pool[v].stale
          /\ pool[v].state = "running"
          /\ pool[v].index = v - 1
          /\ pool[v].city = InputQueries[city_input][v]

\* The text after the last `;`, trimmed and lowercased.
LastFragment(text) ==
    LET last == CHOOSE c \in Cuts(text) \ {Len(text) + 1} :
                    \A d \in Cuts(text) \ {Len(text) + 1} : d <= c
        tail == Trimmed(SubSeq(text, last + 1, Len(text)))
    IN  [k \in 1..Len(tail) |-> LowerChar(tail[k])]

\* The positions of the city list whose lowercased entry starts with the
\* fragment.
Hits(all, fragment) ==
    {i \in 1..Len(all) :
        /\ Len(fragment) <= Len(all[i])
        /\ \A k \in 1..Len(fragment) : LowerChar(all[i][k]) = fragment[k]}

\* The entries at the first MaxSuggestions of these positions, in the order
\* of the city list.
FirstHits(all, fragment) ==
    LET hits  == Hits(all, fragment)
        first == {i \in hits :
                    Cardinality({j \in hits : j < i}) < MaxSuggestions}
    IN  [k \in 1..Cardinality(first) |->
            all[CHOOSE i \in first :
                    Cardinality({j \in first : j < i}) = k - 1]]

BatchDone == tally.started >= 1 /\ tally.handled = tally.started

\* C14: once the batch is complete, the cards shown are those of its
\* payloads, whatever the order of the results: one card per payload of the
\* batch, each in the cell of an index of the batch, no two in one cell.
ClaimC14 ==
    BatchDone =>
        /\ Len(grid_layout) = tally.succeeded
        /\ \A a \in 1..Len(grid_layout) :
              2 * grid_layout[a].row + grid_layout[a].col < tally.started
        /\ \A a, b \in 1..Len(grid_layout) :
              a # b => \/ grid_layout[a].row # grid_layout[b].row
                       \/ grid_layout[a].col # grid_layout[b].col

\* C15: pending_results is never negative, and outside the dispatch loop
\* it is the number of started workers whose result has not been handled.
ClaimC15 ==
    /\ pending_results >= 0
    /\ (\A i \in 1..Len(stack) : stack[i].at # "warn_invalid") =>
           pending_results = Cardinality({v \in 1..Len(pool) : Live(v)})

\* The symbol the window shows for a unit system.
SymbolOf(u) == IF u = "metric" THEN "C" ELSE "F"

\* C16: every card shows the unit system its payload was requested with.
ClaimC16 ==
    \A a \in 1..Len(grid_layout) :
        /\ grid_layout[a].unit = grid_layout[a].data.units
        /\ grid_layout[a].unit_symbol = SymbolOf(grid_layout[a].data.units)

=============================================================================
